---- MODULE Spec2Model ----
(***************************************************************************)
(* The kanban backend of src/kanban/views.py: three tables (User,          *)
(* CardCategory, Card) behind fourteen HTTP routes, each guarded by the    *)
(* decorators token_required and required_fields.                          *)
(*                                                                         *)
(* Identifiers and field values are small integers; None models Python's   *)
(* None (an absent or null JSON field).  Timestamps (created_at,           *)
(* update_at) are not part of the state: no handler reads them.  A         *)
(* request's response is part of its Outcome, which the properties below   *)
(* evaluate in every reachable state for every request a client can send.  *)
(***************************************************************************)
EXTENDS Integers, FiniteSets, Sequences, TLC

VARIABLES
    users,       \* table "user":          id -> [name, email, password, photo]
    categories,  \* table "card_category": id -> [name, color, user_id]
    cards,       \* table "card":          id -> [title, description, status, category_id, user_id]
    issued,      \* how many ids uuid4() has handed out so far
    inflight,    \* requests that passed token_required and have not run their handler yet
    deleted,     \* history: <<kind, id>> of every record a DELETE answered 200 for
    posted       \* history: category id -> the fields it was POSTed with, while untouched

vars == <<users, categories, cards, issued, inflight, deleted, posted>>
db == <<users, categories, cards, issued>>

\* ------------------------------------------------------------------ bounds

\* ids uuid4() can hand out in the sequential specification
MaxIds == 3
\* ids uuid4() can hand out in the interleaved specification
MaxIdsConc == 2
\* requests between their token check and their handler, interleaved specification
MaxInflight == 1

\* ------------------------------------------------------------------ values

None == -1

\* the ids a client can send: absent, an id no table ever held (0), any id issued
IdIn == {None} \cup (0 .. issued)
\* the ids a client can put in a path: any string
PathIn == 0 .. issued
NameIn == {None, 1, 2}
EmailIn == {None, 1}
PasswordIn == {None, 1}
PhotoIn == {None}
TitleIn == {None, 1, 2}
StatusIn == {None, 1}
DescriptionIn == {None}
ColorIn == {None, 3}

\* ------------------------------------------------------------------ responses

Pass == [status |-> 0, detail |-> "", payload |-> {}]
HTTPException(status_code, detail) == [status |-> status_code, detail |-> detail, payload |-> {}]
JSONResponse(content, status_code) == [status |-> status_code, detail |-> "", payload |-> content]
JSONError(error, status_code) == [status |-> status_code, detail |-> error, payload |-> {}]
\* an exception no handler catches: the framework answers 500
Unhandled(exception) == [status |-> 500, detail |-> exception, payload |-> {}]

\* Model.to_dict(): the row's columns with its id
to_dict(table, i) == [f \in DOMAIN table[i] \cup {"id"} |-> IF f = "id" THEN i ELSE table[i][f]]

\* what a request comes to: its response and the tables it leaves
Outcome(r, u, c, k, n) ==
    [status |-> r.status, detail |-> r.detail, payload |-> r.payload,
     users |-> u, categories |-> c, cards |-> k, issued |-> n]

\* ------------------------------------------------------------------ decorators

RequiredFieldsNoCheck(fields, body) == Pass

required_fields(fields, body) ==
    IF \E k \in 1 .. Len(fields) : body[fields[k]] = None
    THEN LET k == CHOOSE k \in 1 .. Len(fields) :
                      /\ body[fields[k]] = None
                      /\ \A j \in 1 .. k - 1 : body[fields[j]] # None
         IN  HTTPException(400, "required field \"" \o fields[k] \o "\"")
    ELSE Pass

TokenRequiredNoLookup(body) ==
    IF body["user_id"] = None THEN HTTPException(400, "required field \"user_id\"") ELSE Pass

token_required(body) ==
    IF body["user_id"] = None THEN HTTPException(400, "required field \"user_id\"")
    ELSE IF body["user_id"] \notin DOMAIN users THEN HTTPException(400, "invalid user_id")
    ELSE Pass

\* ------------------------------------------------------------------ the store

Uuid4Reused ==
    LET free == {i \in 1 .. issued + 1 :
                    i \notin DOMAIN users \cup DOMAIN categories \cup DOMAIN cards}
    IN  CHOOSE i \in free : \A j \in free : i <= j

\* uuid4(): an id no table has held before
uuid4 == issued + 1

Remove(table, i) == [j \in DOMAIN table \ {i} |-> table[j]]

ForeignKeysNoCategory(u, c, k) ==
    /\ \A i \in DOMAIN c : c[i].user_id \in DOMAIN u
    /\ \A i \in DOMAIN k : k[i].user_id \in DOMAIN u

ForeignKeysNoUser(u, c, k) ==
    \A i \in DOMAIN k : k[i].category_id \in DOMAIN c

\* the schema's constraints: card_category.user_id and card.user_id name a user,
\* card.category_id names a category
ForeignKeysHold(u, c, k) ==
    /\ \A i \in DOMAIN c : c[i].user_id \in DOMAIN u
    /\ \A i \in DOMAIN k : k[i].user_id \in DOMAIN u /\ k[i].category_id \in DOMAIN c

\* session.commit(): the write takes effect, or a constraint violation rolls it
\* back and surfaces as an unhandled error
commit(u, c, k, n, ok) ==
    IF ForeignKeysHold(u, c, k)
    THEN Outcome(ok, u, c, k, n)
    ELSE Outcome(Unhandled("IntegrityError"), users, categories, cards, issued)

\* a response that writes nothing
answer(r) == Outcome(r, users, categories, cards, issued)

\* select(User).where(User.id == body['user_id']) ... .first()
first_user(body) == IF body["user_id"] \in DOMAIN users THEN body["user_id"] ELSE None

\* session.get(Model, id)
get(table, i) == IF i \in DOMAIN table THEN i ELSE None

\* hashpw(password, gensalt(8)): never the plaintext
hashpw(password) == password + 10

\* ------------------------------------------------------------------ handlers
\* Each takes the decoded body (and the path's id) and gives the request's Outcome.

get_user(body) ==
    LET user == first_user(body)
    IN  IF user = None THEN answer(Unhandled("AttributeError"))
        ELSE answer(JSONResponse({to_dict(users, user)}, 200))

create_user(body) ==
    LET user_uuid == uuid4
        u == users @@ (user_uuid :> [name |-> body["name"], email |-> body["email"],
                                     password |-> hashpw(body["password"]),
                                     photo |-> body["photo"]])
    IN  commit(u, categories, cards, issued + 1, JSONResponse({to_dict(u, user_uuid)}, 200))

update_user(body) ==
    LET user == first_user(body)
    IN  IF user = None THEN answer(Unhandled("AttributeError"))
        ELSE LET u == [users EXCEPT ![user] =
                          [name |-> body["name"], email |-> body["email"],
                           password |-> hashpw(body["password"]), photo |-> body["photo"]]]
             IN  commit(u, categories, cards, issued, JSONResponse({to_dict(u, user)}, 200))

delete_user(body) ==
    LET user == first_user(body)
    IN  IF user = None THEN answer(Unhandled("UnmappedInstanceError"))
        ELSE commit(Remove(users, user), categories, cards, issued,
                    JSONResponse({to_dict(users, user)}, 200))

get_cards(body) ==
    LET user == first_user(body)
    IN  IF user = None THEN answer(Unhandled("AttributeError"))
        ELSE answer(JSONResponse(
                 {to_dict(cards, i) : i \in {j \in DOMAIN cards : cards[j].user_id = user}}, 200))

get_card(body, card_id) ==
    LET user == first_user(body)
        card == get(cards, card_id)
    IN  IF user = None THEN answer(Unhandled("AttributeError"))
        ELSE IF card # None /\ cards[card].user_id = user
        THEN answer(JSONResponse({to_dict(cards, card)}, 200))
        ELSE answer(JSONError("card not found", 404))

CreateCardNoCategoryCheck(body) ==
    LET user == first_user(body)
    IN  IF user = None THEN answer(Unhandled("AttributeError"))
        ELSE LET id == uuid4
                 k == cards @@ (id :> [status |-> body["status"], title |-> body["title"],
                                       description |-> body["description"],
                                       category_id |-> body["category_id"], user_id |-> user])
             IN  commit(users, categories, k, issued + 1, JSONResponse({to_dict(k, id)}, 200))

create_card(body) ==
    LET user == first_user(body)
        category == get(categories, body["category_id"])
    IN  IF user = None THEN answer(Unhandled("AttributeError"))
        ELSE IF category = None THEN answer(JSONError("invalid category_id", 400))
        ELSE LET id == uuid4
                 k == cards @@ (id :> [status |-> body["status"], title |-> body["title"],
                                       description |-> body["description"],
                                       category_id |-> category, user_id |-> user])
             IN  commit(users, categories, k, issued + 1, JSONResponse({to_dict(k, id)}, 200))

update_card(body) ==
    LET card == get(cards, body["id"])
    IN  IF card # None
        THEN LET k == [cards EXCEPT ![card] =
                          [status |-> body["status"], title |-> body["title"],
                           description |-> body["description"],
                           category_id |-> body["category_id"], user_id |-> @.user_id]]
             IN  commit(users, categories, k, issued, JSONResponse({to_dict(k, card)}, 200))
        ELSE answer(JSONError("card not found", 404))

delete_card(body) ==
    LET card == get(cards, body["id"])
    IN  IF card = None THEN answer(JSONError("card not found", 404))
        ELSE commit(users, categories, Remove(cards, card), issued,
                    JSONResponse({to_dict(cards, card)}, 200))

get_cards_categories(body) ==
    LET user == first_user(body)
    IN  IF user = None THEN answer(Unhandled("AttributeError"))
        ELSE answer(JSONResponse(
                 {to_dict(categories, i) :
                     i \in {j \in DOMAIN categories : categories[j].user_id = user}}, 200))

GetCardCategoryNoOwnerCheck(body, card_category_id) ==
    LET user == first_user(body)
        card_category == get(categories, card_category_id)
    IN  IF user = None THEN answer(Unhandled("AttributeError"))
        ELSE IF card_category # None
        THEN answer(JSONResponse({to_dict(categories, card_category)}, 200))
        ELSE answer(JSONError("card category not found", 404))

get_card_category(body, card_category_id) ==
    LET user == first_user(body)
        card_category == get(categories, card_category_id)
    IN  IF user = None THEN answer(Unhandled("AttributeError"))
        ELSE IF card_category # None /\ categories[card_category].user_id = user
        THEN answer(JSONResponse({to_dict(categories, card_category)}, 200))
        ELSE answer(JSONError("card category not found", 404))

CreateCardCategoryColorAsName(body) ==
    LET user == first_user(body)
    IN  IF user = None THEN answer(Unhandled("AttributeError"))
        ELSE LET id == uuid4
                 c == categories @@ (id :> [name |-> body["color"], color |-> body["color"],
                                            user_id |-> user])
             IN  commit(users, c, cards, issued + 1, JSONResponse({to_dict(c, id)}, 200))

create_card_category(body) ==
    LET user == first_user(body)
    IN  IF user = None THEN answer(Unhandled("AttributeError"))
        ELSE LET id == uuid4
                 c == categories @@ (id :> [name |-> body["name"], color |-> body["color"],
                                            user_id |-> user])
             IN  commit(users, c, cards, issued + 1, JSONResponse({to_dict(c, id)}, 200))

update_card_category(body) ==
    LET card_category == get(categories, body["category_id"])
    IN  IF card_category # None
        THEN LET c == [categories EXCEPT ![card_category] =
                          [name |-> body["name"], color |-> body["color"], user_id |-> @.user_id]]
             IN  commit(users, c, cards, issued, JSONResponse({to_dict(c, card_category)}, 200))
        ELSE answer(JSONError("card category not found", 404))

delete_card_category(body) ==
    LET card_category == get(categories, body["category_id"])
    IN  IF card_category = None THEN answer(JSONError("card category not found", 404))
        ELSE commit(users, Remove(categories, card_category), cards, issued,
                    JSONResponse({to_dict(categories, card_category)}, 200))

\* ------------------------------------------------------------------ routes

Routes == {"get_user", "create_user", "update_user", "delete_user",
           "get_cards", "get_card", "create_card", "update_card", "delete_card",
           "get_cards_categories", "get_card_category", "create_card_category",
           "update_card_category", "delete_card_category"}

\* the routes decorated with @token_required: all but POST /user
TokenRoutes == Routes \ {"create_user"}

\* the routes that answer POST or PUT
WriteRoutes == {"create_user", "update_user", "create_card", "update_card",
                "create_card_category", "update_card_category"}

\* each route's @required_fields(...), in the decorator's order
RequiredOf(op) ==
    CASE op = "create_user" -> <<"name", "email", "password">>
      [] op = "update_user" -> <<"name", "password", "email">>
      [] op = "create_card" -> <<"title", "category_id", "status">>
      [] op = "update_card" -> <<"id", "status", "title", "category_id">>
      [] op = "delete_card" -> <<"id">>
      [] op = "create_card_category" -> <<"name", "color">>
      [] op = "update_card_category" -> <<"category_id", "name", "color">>
      [] op = "delete_card_category" -> <<"category_id">>
      [] OTHER -> <<>>

\* the handler a route wraps
Handler(op, body, path) ==
    CASE op = "get_user" -> get_user(body)
      [] op = "create_user" -> create_user(body)
      [] op = "update_user" -> update_user(body)
      [] op = "delete_user" -> delete_user(body)
      [] op = "get_cards" -> get_cards(body)
      [] op = "get_card" -> get_card(body, path)
      [] op = "create_card" -> create_card(body)
      [] op = "update_card" -> update_card(body)
      [] op = "delete_card" -> delete_card(body)
      [] op = "get_cards_categories" -> get_cards_categories(body)
      [] op = "get_card_category" -> get_card_category(body, path)
      [] op = "create_card_category" -> create_card_category(body)
      [] op = "update_card_category" -> update_card_category(body)
      [] op = "delete_card_category" -> delete_card_category(body)

\* required_fields' inner(): answer 400 or call the handler
Inner(op, body, path) ==
    LET f == required_fields(RequiredOf(op), body)
    IN  IF f.status # 0 THEN answer(f) ELSE Handler(op, body, path)

\* a route run from its outermost decorator to its response without interruption
Route(op, body, path) ==
    IF op \in TokenRoutes /\ token_required(body).status # 0
    THEN answer(token_required(body))
    ELSE Inner(op, body, path)

\* the values a client can send for field f of a request to route op; a field the
\* route never reads is left out of the body (None)
FieldIn(op, f) ==
    CASE f = "user_id" -> IdIn
      [] f = "id" /\ op \in {"update_card", "delete_card"} -> IdIn
      [] f = "category_id" /\ op \in {"create_card", "update_card", "update_card_category",
                                      "delete_card_category"} -> IdIn
      [] f = "name" /\ op \in {"create_user", "update_user", "create_card_category",
                               "update_card_category"} -> NameIn
      [] f = "email" /\ op \in {"create_user", "update_user"} -> EmailIn
      [] f = "password" /\ op \in {"create_user", "update_user"} -> PasswordIn
      [] f = "photo" /\ op \in {"create_user", "update_user"} -> PhotoIn
      [] f = "title" /\ op \in {"create_card", "update_card"} -> TitleIn
      [] f = "status" /\ op \in {"create_card", "update_card"} -> StatusIn
      [] f = "description" /\ op \in {"create_card", "update_card"} -> DescriptionIn
      [] f = "color" /\ op \in {"create_card_category", "update_card_category"} -> ColorIn
      [] f = "path" /\ op \in {"get_card", "get_card_category"} -> PathIn
      [] OTHER -> {None}

\* the requests a client can send to a route: one value per body field, and the
\* path's id last
Requests(op) ==
    FieldIn(op, "user_id") \X FieldIn(op, "id") \X FieldIn(op, "category_id")
        \X FieldIn(op, "name") \X FieldIn(op, "email") \X FieldIn(op, "password")
        \X FieldIn(op, "photo") \X FieldIn(op, "title") \X FieldIn(op, "status")
        \X FieldIn(op, "description") \X FieldIn(op, "color") \X FieldIn(op, "path")

\* request.json(): the decoded body, every field name mapped to its value or None
Body(r) ==
    [user_id |-> r[1], id |-> r[2], category_id |-> r[3], name |-> r[4], email |-> r[5],
     password |-> r[6], photo |-> r[7], title |-> r[8], status |-> r[9],
     description |-> r[10], color |-> r[11]]

\* the {card_id} or {card_category_id} of the request's path
Path(r) == r[12]

\* a GET by id: a body holding only user_id, and the path's id
Get(u, i) == <<u, None, None, None, None, None, None, None, None, None, None, i>>

\* ------------------------------------------------------------------ history

Observe(op, body, o) ==
    /\ deleted' =
          IF o.status = 200 /\ op = "delete_card"
          THEN deleted \cup {<<"card", body["id"]>>}
          ELSE IF o.status = 200 /\ op = "delete_card_category"
          THEN deleted \cup {<<"card_category", body["category_id"]>>}
          ELSE deleted
    /\ posted' =
          IF op = "create_card_category" /\ o.status = 200
          THEN posted @@ ((CHOOSE d \in o.payload : TRUE).id :>
                             [name |-> body["name"], color |-> body["color"],
                              user_id |-> body["user_id"]])
          ELSE IF op \in {"update_card_category", "delete_card_category"}
          THEN [i \in DOMAIN posted \ {body["category_id"]} |-> posted[i]]
          ELSE IF op = "delete_user"
          THEN [i \in {j \in DOMAIN posted : posted[j].user_id # body["user_id"]} |-> posted[i]]
          ELSE posted

\* ------------------------------------------------------------------ specification

Init ==
    /\ users = <<>>
    /\ categories = <<>>
    /\ cards = <<>>
    /\ issued = 0
    /\ inflight = {}
    /\ deleted = {}
    /\ posted = <<>>

Apply(op, body, o, cap) ==
    /\ o.issued <= cap
    /\ users' = o.users
    /\ categories' = o.categories
    /\ cards' = o.cards
    /\ issued' = o.issued
    /\ Observe(op, body, o)

\* one request, served from its first decorator to its response with no other
\* request in between
Serve(op, r, cap) ==
    /\ Apply(op, Body(r), Route(op, Body(r), Path(r)), cap)
    /\ UNCHANGED inflight

GetUser == \E r \in Requests("get_user") : Serve("get_user", r, MaxIds)
PostUser == \E r \in Requests("create_user") : Serve("create_user", r, MaxIds)
PutUser == \E r \in Requests("update_user") : Serve("update_user", r, MaxIds)
DeleteUser == \E r \in Requests("delete_user") : Serve("delete_user", r, MaxIds)
GetCards == \E r \in Requests("get_cards") : Serve("get_cards", r, MaxIds)
GetCard == \E r \in Requests("get_card") : Serve("get_card", r, MaxIds)
PostCard == \E r \in Requests("create_card") : Serve("create_card", r, MaxIds)
PutCard == \E r \in Requests("update_card") : Serve("update_card", r, MaxIds)
DeleteCard == \E r \in Requests("delete_card") : Serve("delete_card", r, MaxIds)
GetCardsCategories == \E r \in Requests("get_cards_categories") : Serve("get_cards_categories", r, MaxIds)
GetCardCategory == \E r \in Requests("get_card_category") : Serve("get_card_category", r, MaxIds)
PostCardCategory == \E r \in Requests("create_card_category") : Serve("create_card_category", r, MaxIds)
PutCardCategory == \E r \in Requests("update_card_category") : Serve("update_card_category", r, MaxIds)
DeleteCardCategory == \E r \in Requests("delete_card_category") : Serve("delete_card_category", r, MaxIds)

Next ==
    \/ GetUser \/ PostUser \/ PutUser \/ DeleteUser
    \/ GetCards \/ GetCard \/ PostCard \/ PutCard \/ DeleteCard
    \/ GetCardsCategories \/ GetCardCategory \/ PostCardCategory
    \/ PutCardCategory \/ DeleteCardCategory

Spec == Init /\ [][Next]_vars

\* ------------------------------------------------------------------ interleaving
\* token_required reads the User in its own session and then awaits the wrapped
\* function, which opens a second session and reads the User again.  Between the
\* two reads other requests may commit.  A handler's own reads and its commit
\* share one session and are taken as one step.

\* token_required's check passes: the request is about to run the wrapped function
Begin ==
    \E op \in TokenRoutes :
        \E r \in Requests(op) :
            /\ Cardinality(inflight) < MaxInflight
            /\ token_required(Body(r)).status = 0
            /\ inflight' = inflight \cup {[op |-> op, request |-> r]}
            /\ UNCHANGED <<db, deleted, posted>>

\* the wrapped function runs: required_fields, then the handler in its own session
Finish ==
    \E r \in inflight :
        /\ Apply(r.op, Body(r.request), Inner(r.op, Body(r.request), Path(r.request)), MaxIdsConc)
        /\ inflight' = inflight \ {r}

\* a request that runs from its first decorator to its response with nothing between
Atomic == \E op \in Routes : \E r \in Requests(op) : Serve(op, r, MaxIdsConc)

NextConc == Begin \/ Finish \/ Atomic

SpecConc == Init /\ [][NextConc]_vars

\* ------------------------------------------------------------------ properties
\* Each property is evaluated in every reachable state; "a request r to route op is
\* answered ..." reads Route(op, Body(r), Path(r)), the outcome the route gives there.

KnownUser(body) == body["user_id"] \in DOMAIN users
UnknownUser(body) == body["user_id"] # None /\ body["user_id"] \notin DOMAIN users
Missing(op, body) == {k \in 1 .. Len(RequiredOf(op)) : body[RequiredOf(op)[k]] = None}
SameTables(o) == o.users = users /\ o.categories = categories /\ o.cards = cards

C3_EveryRouteRejectsUnknownUser ==
    \A op \in Routes : \A r \in Requests(op) :
        UnknownUser(Body(r)) => Route(op, Body(r), Path(r)).status = 400

\* C3 amended: on every route but POST /user, a request whose user_id names no
\* stored User is answered 400 "invalid user_id" and writes nothing.
C3_TokenRoutesRejectUnknownUser ==
    \A op \in TokenRoutes : \A r \in Requests(op) :
        UnknownUser(Body(r)) =>
            LET o == Route(op, Body(r), Path(r))
            IN  o.status = 400 /\ o.detail = "invalid user_id" /\ SameTables(o)

\* C3's case: a user has been deleted, and a complete PUT /card-category carrying
\* the deleted user's id, for a stored category, is answered 400.
C3_Witness ==
    \E r \in Requests("update_card_category") :
        /\ Body(r)["user_id"] \in 1 .. issued /\ UnknownUser(Body(r))
        /\ Missing("update_card_category", Body(r)) = {}
        /\ Body(r)["category_id"] \in DOMAIN categories
        /\ Route("update_card_category", Body(r), Path(r)).status = 400

\* the fields the interface lists as required for a POST or PUT route, in the
\* order the decorators read them
RequiredSet(op) ==
    (IF op \in TokenRoutes THEN {"user_id"} ELSE {}) \cup
    {RequiredOf(op)[k] : k \in 1 .. Len(RequiredOf(op))}

\* C4 as claimed: a POST or PUT request lacking a required field f is answered 400
\* with a detail naming f.
C4_EveryMissingFieldNamed ==
    \A op \in WriteRoutes : \A r \in Requests(op) : \A f \in RequiredSet(op) :
        Body(r)[f] = None =>
            LET o == Route(op, Body(r), Path(r))
            IN  o.status = 400 /\ o.detail = "required field \"" \o f \o "\""

\* the detail the first failing check gives: user_id absent, then user_id unknown,
\* then the earliest absent field of the route's required_fields list
FirstFailure(op, body) ==
    IF op \in TokenRoutes /\ body["user_id"] = None THEN "required field \"user_id\""
    ELSE IF op \in TokenRoutes /\ body["user_id"] \notin DOMAIN users THEN "invalid user_id"
    ELSE LET m == Missing(op, body)
             k == CHOOSE k \in m : \A j \in m : k <= j
         IN  "required field \"" \o RequiredOf(op)[k] \o "\""

\* C4 amended: a POST or PUT request lacking a required field is answered 400 and
\* writes nothing; the detail names the first missing field only (user_id first,
\* then the decorator's order), or is "invalid user_id" when user_id names no user.
C4_MissingFieldRejected ==
    \A op \in WriteRoutes : \A r \in Requests(op) :
        LET body == Body(r)
        IN  ((op \in TokenRoutes /\ body["user_id"] = None) \/ Missing(op, body) # {}) =>
                LET o == Route(op, body, Path(r))
                IN  o.status = 400 /\ o.detail = FirstFailure(op, body) /\ SameTables(o)

\* C4's case: a stored user sends a PUT /card for a stored card with two required
\* fields missing, and the answer names only the first.
C4_Witness ==
    \E r \in Requests("update_card") :
        /\ KnownUser(Body(r)) /\ Body(r)["id"] \in DOMAIN cards
        /\ Body(r)["status"] = None /\ Body(r)["title"] = None
        /\ Route("update_card", Body(r), Path(r)).status = 400
        /\ Route("update_card", Body(r), Path(r)).detail = "required field \"status\""

C6_DeletedStaysGone ==
    \A d \in deleted : \A u \in DOMAIN users :
        /\ d[1] = "card" => Route("get_card", Body(Get(u, d[2])), d[2]).status = 404
        /\ d[1] = "card_category" =>
              Route("get_card_category", Body(Get(u, d[2])), d[2]).status = 404

\* C6's case: a record was deleted, a later POST created another record of the same
\* kind, and the GET of the deleted id is answered 404.
C6_Witness ==
    \E d \in deleted : \E u \in DOMAIN users :
        /\ d[1] = "card_category"
        /\ \E j \in DOMAIN categories : j > d[2] /\ categories[j].user_id = u
        /\ Route("get_card_category", Body(Get(u, d[2])), d[2]).status = 404

\* C7: POST /card by a stored user with every required field present and a
\* category_id naming no stored CardCategory is answered 400 and writes nothing.
C7_UnknownCategoryRejected ==
    \A r \in Requests("create_card") :
        (/\ KnownUser(Body(r)) /\ Missing("create_card", Body(r)) = {}
         /\ Body(r)["category_id"] \notin DOMAIN categories) =>
            LET o == Route("create_card", Body(r), Path(r))
            IN  o.status = 400 /\ SameTables(o)

\* C7's case: categories are stored, one was deleted, and a complete POST /card
\* naming the deleted category is answered 400.
C7_Witness ==
    \E r \in Requests("create_card") :
        /\ KnownUser(Body(r)) /\ Missing("create_card", Body(r)) = {}
        /\ categories # <<>>
        /\ <<"card_category", Body(r)["category_id"]>> \in deleted
        /\ Route("create_card", Body(r), Path(r)).status = 400

\* C8: a category POSTed by user u with name n and color c, and since then neither
\* PUT nor DELETEd nor its user DELETEd, is returned by GET /card-category/{id} for
\* u with status 200 and name n, color c, user_id u.
C8_CategoryRoundTrip ==
    \A i \in DOMAIN posted :
        LET o == Route("get_card_category", Body(Get(posted[i].user_id, i)), i)
        IN  /\ o.status = 200
            /\ \A d \in o.payload :
                  /\ d.id = i
                  /\ d.name = posted[i].name
                  /\ d.color = posted[i].color
                  /\ d.user_id = posted[i].user_id
            /\ Cardinality(o.payload) = 1

\* C8's case: a POSTed category is still untouched after a later request created
\* another record, and its GET is answered 200.
C8_Witness ==
    \E i \in DOMAIN posted :
        /\ issued > i
        /\ Route("get_card_category", Body(Get(posted[i].user_id, i)), i).status = 200

\* C9: a PUT or DELETE on /card or /card-category sent with user_id u leaves every
\* Card and CardCategory owned by another user stored and unchanged.
C9_WriteIsolation ==
    \A op \in {"update_card", "delete_card", "update_card_category", "delete_card_category"} :
        \A r \in Requests(op) :
            LET o == Route(op, Body(r), Path(r))
                u == Body(r)["user_id"]
            IN  /\ \A i \in DOMAIN cards :
                      cards[i].user_id # u => i \in DOMAIN o.cards /\ o.cards[i] = cards[i]
                /\ \A i \in DOMAIN categories :
                      categories[i].user_id # u =>
                          i \in DOMAIN o.categories /\ o.categories[i] = categories[i]

\* C10: every request that passed token_required's check still finds its User row
\* when its handler reads it: run now, no handler in flight ends in the unhandled
\* error of using a User that is None.
C10_HandlerFindsUser ==
    \A r \in inflight :
        Inner(r.op, Body(r.request), Path(r.request)).detail \notin {"AttributeError", "UnmappedInstanceError"}

====
